---------------------------- MODULE Spec2Model ----------------------------
(***************************************************************************)
(* A model of the Wahala Index app (src/app.py): headline normalisation    *)
(* and de-duplication, category heat scores, the parsing of the oracle's   *)
(* reply, the two CSV-backed stores and the button handler that ties them  *)
(* together.                                                               *)
(*                                                                         *)
(* Text is a TLA+ string; TLC evaluates Len, SubSeq and \o on strings, so  *)
(* the string functions of the source are computed character by character. *)
(* TLA+ string literals are ASCII only, so three non-ASCII characters of   *)
(* the source are written with ASCII stand-ins that the inputs never use   *)
(* otherwise and that fall in the same character classes (not whitespace,  *)
(* not a word character, not cased): see EN_DASH, EM_DASH and ELLIPSIS.     *)
(***************************************************************************)
EXTENDS Integers, Sequences, FiniteSets, TLC

VARIABLES
    pc,                 \* where the operation applied, or the handler, stands
    arg,                \* the input handed to a pure function
    ret,                \* what the last call returned
    today,              \* index into Days of date.today()
    HISTORY_CSV,        \* the file wahala_history.csv
    CAPTION_LOG_CSV,    \* the file wahala_caption_log.csv
    tone,               \* the sidebar's tone selection
    all_headlines,      \* the concatenated headlines of the last run
    wahala_score_text,  \* the oracle's reply text of the last run
    wahala_num,         \* its parsed score: <<>> is None, <<n>> is n
    summary,            \* the caption the last run showed
    outcome,            \* how the last call / run ended
    calls               \* the run of pick_unused_today calls under watch

vars == <<pc, arg, ret, today, HISTORY_CSV, CAPTION_LOG_CSV, tone,
          all_headlines, wahala_score_text, wahala_num, summary, outcome, calls>>

-----------------------------------------------------------------------------
(* Characters and Python's str / re primitives                              *)

EN_DASH == "~"       \* stands for U+2013
EM_DASH == "^"       \* stands for U+2014
ELLIPSIS == "*"      \* stands for U+2026

LowerLetters == "abcdefghijklmnopqrstuvwxyz"
UpperLetters == "ABCDEFGHIJKLMNOPQRSTUVWXYZ"
Digits == "0123456789"

Ch(s, i) == SubSeq(s, i, i)

CharsOf(s) == {Ch(s, i) : i \in 1..Len(s)}

LowerSet == CharsOf(LowerLetters)
UpperSet == CharsOf(UpperLetters)
DigitSet == CharsOf(Digits)
\* \s of re
SpaceSet == {" ", "\t", "\n", "\r", "\f"}
\* \w of re: letters, digits and the underscore
WordSet == LowerSet \cup UpperSet \cup DigitSet \cup {"_"}

IsLowerCh(c) == c \in LowerSet
IsUpperCh(c) == c \in UpperSet
IsDigitCh(c) == c \in DigitSet
IsSpaceCh(c) == c \in SpaceSet
IsWordCh(c) == c \in WordSet

\* the pairs <<upper-case letter, its lower-case letter>>
LowerPairs == {<<Ch(UpperLetters, i), Ch(LowerLetters, i)>> : i \in 1..Len(UpperLetters)}

\* str.lower() on one character
LowerCh(c) ==
    IF c \in UpperSet THEN (CHOOSE p \in LowerPairs : p[1] = c)[2] ELSE c

\* "".join of pieces[lo..hi]
RECURSIVE Join(_, _, _)
Join(pieces, lo, hi) ==
    IF lo > hi THEN ""
    ELSE IF lo = hi THEN pieces[lo]
    ELSE LET mid == (lo + hi) \div 2
         IN  Join(pieces, lo, mid) \o Join(pieces, mid + 1, hi)

\* the index of the first character of s that is in class, Len(s) + 1 when none is
FirstIn(s, class) ==
    IF \E i \in 1..Len(s) : Ch(s, i) \in class
    THEN CHOOSE i \in 1..Len(s) :
             Ch(s, i) \in class /\ \A j \in 1..(i - 1) : Ch(s, j) \notin class
    ELSE Len(s) + 1

\* str.lower()
Lower(s) == Join([i \in 1..Len(s) |-> LowerCh(Ch(s, i))], 1, Len(s))

\* int() of one decimal digit
DigitPairs == {<<Ch(Digits, i), i - 1>> : i \in 1..Len(Digits)}

DigitValue(c) == (CHOOSE p \in DigitPairs : p[1] = c)[2]

\* sub in s  (Python's substring test)
Contains(s, sub) ==
    \E i \in 1..(Len(s) - Len(sub) + 1) : SubSeq(s, i, i + Len(sub) - 1) = sub

StartsWith(s, p) == Len(s) >= Len(p) /\ SubSeq(s, 1, Len(p)) = p

\* s[n:]
Drop(s, n) == SubSeq(s, n + 1, Len(s))

RECURSIVE LStrip(_)
LStrip(s) == IF s # "" /\ IsSpaceCh(Head(s)) THEN LStrip(Tail(s)) ELSE s

RECURSIVE RStrip(_)
RStrip(s) ==
    IF s # "" /\ IsSpaceCh(Ch(s, Len(s))) THEN RStrip(SubSeq(s, 1, Len(s) - 1)) ELSE s

\* str.strip()
Strip(s) == RStrip(LStrip(s))

\* all texts over the characters of alphabet (a set of characters) of length <= n
RECURSIVE TextsUpTo(_, _)
TextsUpTo(alphabet, n) ==
    IF n = 0 THEN {""}
    ELSE LET shorter == TextsUpTo(alphabet, n - 1)
         IN  shorter \cup {c \o t : c \in alphabet, t \in shorter}

\* the function f with every value computed once (f[x] is otherwise computed anew
\* wherever it is applied)
Computed(f) == f @@ <<>>

\* Optional[int]: None is <<>>, n is <<n>>
None == <<>>
Some(n) == <<n>>
\* Python's truth value of an Optional[int]
Truthy(o) == o # None /\ o[1] # 0

-----------------------------------------------------------------------------
(* _parse_first_digit_1_to_5                                                *)

\* the character class [1-5]
Class1To5 == {"1", "2", "3", "4", "5"}

\* a wider class, as a slip in the pattern would give
Class0To9 == DigitSet

\* re.search scans the text from the left for the first match
ReSearchClass(class, text) ==
    LET m == FirstIn(text, class)
    IN  IF m > Len(text) THEN "" ELSE Ch(text, m)

parse_any_digit(text) ==
    LET m == ReSearchClass(Class0To9, text)
    IN  IF m # "" THEN Some(DigitValue(m)) ELSE None

_parse_first_digit_1_to_5(text) ==
    LET m == ReSearchClass(Class1To5, text)
    IN  IF m # "" THEN Some(DigitValue(m)) ELSE None

-----------------------------------------------------------------------------
(* score_categories                                                         *)

CategoryNames == <<"Politics", "Economy", "Power & Fuel", "Security", "Social Buzz">>

CATEGORIES ==
    [cat \in {CategoryNames[i] : i \in 1..Len(CategoryNames)} |->
        CASE cat = "Politics" ->
                {"senate", "president", "governor", "minister", "election",
                 "assembly", "bill", "policy", "pdp", "apc", "inec"}
          [] cat = "Economy" ->
                {"inflation", "naira", "forex", "subsidy", "customs", "tax",
                 "unemployment", "budget", "cbn"}
          [] cat = "Power & Fuel" ->
                {"fuel", "petrol", "diesel", "pump price", "nepa", "electricity",
                 "power", "grid", "outage"}
          [] cat = "Security" ->
                {"bandit", "kidnap", "attack", "security", "police", "insurgent",
                 "boko haram", "theft", "derail", "train"}
          [] cat = "Social Buzz" ->
                {"twitter", "x.com", "controversy", "trend", "backlash", "viral",
                 "protest", "strike", "nlc", "asuu", "tuc"}]

MaxOf(S) == CHOOSE m \in S : \A x \in S : x <= m

\* Python's round(n / d) for n >= 0, d > 0: to the nearest integer, a tie to the
\* even one.  The source rounds the float 5 * (c / max_hits); for every
\* 0 <= c <= max_hits <= 240 (six sources of at most 40 headlines each) that
\* float rounds as the exact quotient 5c / max_hits does.
RoundHalfEven(n, d) ==
    LET q == n \div d
        r == n % d
    IN  IF 2 * r > d THEN q + 1
        ELSE IF 2 * r < d THEN q
        ELSE IF q % 2 = 0 THEN q ELSE q + 1

\* the floor max(1, ...) left out
HeatScoreNoFloor(c, max_hits) ==
    IF max_hits = 0 THEN 1 ELSE RoundHalfEven(5 * c, max_hits)

\* scaled against max_hits + 1 instead of max_hits
HeatScoreSmoothed(c, max_hits) ==
    IF max_hits = 0 THEN 1
    ELSE MaxOf({1, RoundHalfEven(5 * c, max_hits + 1)})

\* 1 if max_hits == 0 else max(1, round(5 * (c / max_hits)))
HeatScore(c, max_hits) ==
    IF max_hits = 0 THEN 1
    ELSE MaxOf({1, RoundHalfEven(5 * c, max_hits)})

\* counts[cat]: the lines that contain a keyword of cat
CategoryHits(lower_lines, cat) ==
    Cardinality({i \in 1..Len(lower_lines) :
                    \E kw \in CATEGORIES[cat] : Contains(lower_lines[i], kw)})

score_categories(headlines) ==
    LET lower_lines == Computed([i \in 1..Len(headlines) |-> Lower(headlines[i])])
        counts == Computed([cat \in DOMAIN CATEGORIES |->
                               CategoryHits(lower_lines, cat)])
        max_hits == IF DOMAIN counts # {}
                    THEN MaxOf({counts[cat] : cat \in DOMAIN counts}) ELSE 0
        scores == Computed([cat \in DOMAIN counts |->
                               HeatScore(counts[cat], max_hits)])
    IN  [scores |-> scores, counts |-> counts]

-----------------------------------------------------------------------------
(* Headline cleaning: _split_camel_glue, _normalize_headline,               *)
(* _is_bad_headline, fetch_headlines_from                                   *)

BRAND_BLOCKLIST ==
    {"blockdag", "pi network", "worldcoin", "shiba", "dogecoin", "pepe",
     "safemoon", "airdrop", "presale", "token sale"}

HEADLINE_PREFIXES ==
    <<"naija news", "nigeria news", "premium times", "thecable", "daily trust",
      "vanguard", "punch">>

PromoMarkers ==
    {"sponsored", "advert", "advertorial", "promo", "brand studio", "press release"}

\* re.sub(r'([a-z])([A-Z])', r'\1 \2', s): a match ends on an upper-case letter,
\* so no two matches overlap and each lower-case letter before an upper-case one
\* gets a space after it
_split_camel_glue(s) ==
    Join([i \in 1..Len(s) |->
             IF i < Len(s) /\ IsLowerCh(Ch(s, i)) /\ IsUpperCh(Ch(s, i + 1))
             THEN Ch(s, i) \o " " ELSE Ch(s, i)], 1, Len(s))

\* re.sub(r"\s+", " ", s): every maximal run of whitespace becomes one space
CollapseSpaces(s) ==
    Join([i \in 1..Len(s) |->
             IF ~IsSpaceCh(Ch(s, i)) THEN Ch(s, i)
             ELSE IF i > 1 /\ IsSpaceCh(Ch(s, i - 1)) THEN "" ELSE " "], 1, Len(s))

\* len(m.group(0)) of re.match(rf"^{pref}\s*([:<en dash>-])\s*", low), 0 when
\* there is no match
PrefixSeparatorMatch(low, pref) ==
    IF ~StartsWith(low, pref) THEN 0
    ELSE LET rest == Drop(low, Len(pref))
             afterWs == LStrip(rest)
         IN  IF afterWs # "" /\ Head(afterWs) \in {":", EN_DASH, "-"}
             THEN Len(low) - Len(LStrip(Tail(afterWs)))
             ELSE 0

\* the for loop over HEADLINE_PREFIXES from its k-th entry: the first prefix that
\* matches either way is cut off, and the loop breaks
RECURSIVE StripPrefixFrom(_, _)
StripPrefixFrom(h, k) ==
    IF k > Len(HEADLINE_PREFIXES) THEN h
    ELSE LET pref == HEADLINE_PREFIXES[k]
             low == Lower(h)
             m == PrefixSeparatorMatch(low, pref)
         IN  IF m > 0 THEN Drop(h, m)
             ELSE IF StartsWith(low, pref \o " ") THEN Drop(h, Len(pref) + 1)
             ELSE StripPrefixFrom(h, k + 1)

\* str.replace for a single character
ReplaceCh(s, old, new) ==
    Join([i \in 1..Len(s) |-> IF Ch(s, i) = old THEN new ELSE Ch(s, i)], 1, Len(s))

RECURSIVE SkipCommas(_)
SkipCommas(s) == IF s # "" /\ Head(s) = "," THEN SkipCommas(Tail(s)) ELSE s

\* re.sub(r"\s*,\s*,+", ", ", s): leftmost matches, each greedy. A match starts
\* on whitespace or a comma: n is the first place one could start
RECURSIVE CollapseCommas(_)
CollapseCommas(s) ==
    LET n == FirstIn(s, SpaceSet \cup {","})
    IN  IF n > Len(s) THEN s
        ELSE LET a == LStrip(Drop(s, n - 1))
             IN  IF a # "" /\ Head(a) = ","
                    /\ LStrip(Tail(a)) # "" /\ Head(LStrip(Tail(a))) = ","
                 THEN SubSeq(s, 1, n - 1) \o ", "
                         \o CollapseCommas(SkipCommas(LStrip(Tail(a))))
                 ELSE SubSeq(s, 1, n) \o CollapseCommas(Drop(s, n))

_normalize_headline(raw) ==
    LET h1 == Strip(CollapseSpaces(_split_camel_glue(raw)))
        h2 == StripPrefixFrom(h1, 1)
        h3 == ReplaceCh(ReplaceCh(h2, EM_DASH, EN_DASH), ELLIPSIS, " ")
    IN  Strip(CollapseCommas(h3))

\* str.split(): the maximal runs of non-whitespace characters
RECURSIVE Split(_)
Split(s) ==
    LET t == LStrip(s)
        n == FirstIn(t, SpaceSet)
    IN  IF t = "" THEN <<>>
        ELSE <<SubSeq(t, 1, n - 1)>> \o Split(Drop(t, n - 1))

\* str.count of one character
CountCh(s, c) == Cardinality({i \in 1..Len(s) : Ch(s, i) = c})

\* str.isupper(): some cased character, and no lower-case one
IsUpperStr(w) ==
    /\ \E i \in 1..Len(w) : IsUpperCh(Ch(w, i))
    /\ \A i \in 1..Len(w) : ~IsLowerCh(Ch(w, i))

_is_bad_headline(h) ==
    LET low == Lower(h)
        words == Split(h)
    IN  \/ \E b \in PromoMarkers : Contains(low, b)
        \/ \E b \in BRAND_BLOCKLIST : Contains(low, b)
        \/ Len(words) > 20
        \/ CountCh(low, ",") >= 3
        \/ Cardinality({i \in 1..Len(words) :
                            Len(words[i]) >= 3 /\ IsUpperStr(words[i])}) >= 3

\* the defaults of fetch_headlines_from
min_len == 10
max_words == 20
limit == 40

\* line 210: the size test a cleaned text must pass to be kept
IsKept(raw) == Len(raw) >= min_len /\ Len(Split(raw)) >= 3 /\ Len(Split(raw)) <= max_words

\* re.sub(r"\W+", " ", s): every maximal run of non-word characters becomes one
\* space
CollapseNonWord(s) ==
    Join([i \in 1..Len(s) |->
             IF IsWordCh(Ch(s, i)) THEN Ch(s, i)
             ELSE IF i > 1 /\ ~IsWordCh(Ch(s, i - 1)) THEN "" ELSE " "], 1, Len(s))

\* line 216: re.sub(r"\W+", " ", t.lower()).strip()
DedupKey(t) == Strip(CollapseNonWord(Lower(t)))

\* lines 214-219: keep the first text of every key, in order
RECURSIVE DedupFrom(_, _)
DedupFrom(texts, seen) ==
    IF texts = <<>> THEN <<>>
    ELSE LET key == DedupKey(Head(texts))
         IN  IF key \notin seen
             THEN <<Head(texts)>> \o DedupFrom(Tail(texts), seen \cup {key})
             ELSE DedupFrom(Tail(texts), seen)

\* lines 203-211: the texts of the tags that survive cleaning and filtering
RECURSIVE CleanTexts(_)
CleanTexts(tags) ==
    IF tags = <<>> THEN <<>>
    ELSE LET raw0 == Strip(Head(tags))
             raw == _normalize_headline(raw0)
         IN  (IF raw0 # "" /\ ~_is_bad_headline(raw) /\ IsKept(raw)
              THEN <<raw>> ELSE <<>>) \o CleanTexts(Tail(tags))

\* a page is [ok |-> FALSE] when requests.get raises, else [ok |-> TRUE, tags |->
\* the texts of its h1/h2/h3/a tags in document order]
fetch_headlines_from(page) ==
    IF ~page.ok THEN <<>>
    ELSE LET clean == DedupFrom(CleanTexts(page.tags), {})
         IN  SubSeq(clean, 1, IF Len(clean) < limit THEN Len(clean) ELSE limit)

-----------------------------------------------------------------------------
(* The CSV files and pandas' DataFrame, read_csv, to_csv, concat            *)
(*                                                                         *)
(* A file is [exists, parsable, header, rows]: rows are tuples of field    *)
(* texts, as the CSV holds them. A file of zero bytes has an empty header. *)
(* A DataFrame is [columns, rows]: each row maps a column to a typed cell. *)
(* Numbers are decimal integers: the program writes no other number.       *)

StrCell(s) == [t |-> "str", s |-> s, n |-> 0]
NumCell(n) == [t |-> "num", s |-> "", n |-> n]
NaN == [t |-> "nan", s |-> "", n |-> 0]

\* the texts read_csv takes for a missing value
NA_VALUES ==
    {"", "#N/A", "#N/A N/A", "#NA", "-1.#IND", "-1.#QNAN", "-NaN", "-nan",
     "1.#IND", "1.#QNAN", "<NA>", "N/A", "NA", "NULL", "NaN", "None", "n/a",
     "nan", "null"}

\* str(n) of an int n >= 0
RECURSIVE IntToText(_)
IntToText(n) ==
    IF n < 10 THEN Ch(Digits, n + 1)
    ELSE IntToText(n \div 10) \o Ch(Digits, (n % 10) + 1)

IsIntText(s) == s # "" /\ \A i \in 1..Len(s) : IsDigitCh(Ch(s, i))

RECURSIVE TextToInt(_)
TextToInt(s) ==
    IF Len(s) = 1 THEN DigitValue(s)
    ELSE 10 * TextToInt(SubSeq(s, 1, Len(s) - 1)) + DigitValue(Ch(s, Len(s)))

AbsentFile == [exists |-> FALSE, parsable |-> TRUE, header |-> <<>>, rows |-> <<>>]

EmptyFrame(cols) == [columns |-> cols, rows |-> <<>>]

Range(seq) == {seq[i] : i \in 1..Len(seq)}

IndexOf(seq, x) == CHOOSE i \in 1..Len(seq) : seq[i] = x

NoDtype == [c \in {} |-> ""]

\* the cell read_csv makes of a field of a column whose fields are colFields,
\* with the dtype asked for the column ("" when none is asked: the type is
\* inferred, a column of integers becomes numeric, any other one stays text)
ReadCell(field, colFields, dtype) ==
    IF field \in NA_VALUES THEN NaN
    ELSE IF dtype = "int" THEN NumCell(TextToInt(field))
    ELSE IF dtype = "str" THEN StrCell(field)
    ELSE IF \A f \in colFields : f \in NA_VALUES \/ IsIntText(f)
    THEN NumCell(TextToInt(field))
    ELSE StrCell(field)

\* pd.read_csv(file, dtype=dtype): [err |-> TRUE] when it raises (no columns
\* to parse, a malformed file, a value that is no int in a column asked as int)
read_csv(file, dtype) ==
    IF ~file.parsable \/ file.header = <<>> THEN [err |-> TRUE, df |-> EmptyFrame(<<>>)]
    ELSE LET cols == file.header
             colFields(c) == {file.rows[i][IndexOf(cols, c)] : i \in 1..Len(file.rows)}
             dtypeOf(c) == IF c \in DOMAIN dtype THEN dtype[c] ELSE ""
             badInt == \E c \in Range(cols) :
                          /\ dtypeOf(c) = "int"
                          /\ \E f \in colFields(c) : ~IsIntText(f)
         IN  IF badInt THEN [err |-> TRUE, df |-> EmptyFrame(<<>>)]
             ELSE [err |-> FALSE,
                   df |-> [columns |-> cols,
                           rows |-> [i \in 1..Len(file.rows) |->
                                       [c \in Range(cols) |->
                                           ReadCell(file.rows[i][IndexOf(cols, c)],
                                                    colFields(c), dtypeOf(c))]]]]

CellText(cell) ==
    IF cell.t = "str" THEN cell.s
    ELSE IF cell.t = "num" THEN IntToText(cell.n)
    ELSE ""

\* df.to_csv(path, index=False)
to_csv(df) ==
    [exists |-> TRUE, parsable |-> TRUE, header |-> df.columns,
     rows |-> [i \in 1..Len(df.rows) |->
                 [k \in 1..Len(df.columns) |-> CellText(df.rows[i][df.columns[k]])]]]

\* pd.concat([df, pd.DataFrame([record])], ignore_index=True), record given by
\* its columns (in order) and their cells: the columns are df's, then the
\* record's new ones; a cell a frame has no column for is NaN
ConcatRow(df, recCols, rec) ==
    LET cols == df.columns \o SelectSeq(recCols, LAMBDA c : c \notin Range(df.columns))
        widen(row) == [c \in Range(cols) |-> IF c \in DOMAIN row THEN row[c] ELSE NaN]
    IN  [columns |-> cols,
         rows |-> [i \in 1..Len(df.rows) |-> widen(df.rows[i])] \o <<widen(rec)>>]

-----------------------------------------------------------------------------
(* The two stores: _load_history, _save_today, pick_unused_today            *)

\* date.today().isoformat() on the d-th modelled day (days of one month)
IsoDate(d) == "2026-11-" \o (IF d < 10 THEN "0" ELSE "") \o IntToText(d)

HistoryColumns == <<"date", "wahala_score">>
CaptionLogColumns == <<"date", "score", "caption">>

HistoryDtype == [c \in {"date", "wahala_score"} |-> IF c = "date" THEN "str" ELSE "int"]

_load_history(file) ==
    IF file.exists
    THEN LET r == read_csv(file, HistoryDtype)
         IN  IF r.err THEN EmptyFrame(HistoryColumns) ELSE r.df
    ELSE EmptyFrame(HistoryColumns)

\* the row of today is appended without the old one being removed
_save_today_append(score_int, today_str, file) ==
    LET df == _load_history(file)
    IN  IF "date" \notin Range(df.columns)
        THEN [raised |-> TRUE, file |-> file]
        ELSE [raised |-> FALSE,
              file |-> to_csv(ConcatRow(df, HistoryColumns,
                                 [c \in Range(HistoryColumns) |->
                                    IF c = "date" THEN StrCell(today_str)
                                    ELSE NumCell(score_int)]))]

\* [raised |-> TRUE] when df["date"] raises KeyError, else the file as written
_save_today(score_int, today_str, file) ==
    LET df == _load_history(file)
    IN  IF "date" \notin Range(df.columns)
        THEN [raised |-> TRUE, file |-> file]
        ELSE LET kept == [columns |-> df.columns,
                          rows |-> SelectSeq(df.rows,
                                      LAMBDA r : r["date"] # StrCell(today_str))]
             IN  [raised |-> FALSE,
                  file |-> to_csv(ConcatRow(kept, HistoryColumns,
                                     [c \in Range(HistoryColumns) |->
                                        IF c = "date" THEN StrCell(today_str)
                                        ELSE NumCell(score_int)]))]

DefaultCaption == "Top stories: key issues."

\* lines 458-464: the log as loaded
LoadCaptionLog(file) ==
    IF file.exists
    THEN LET r == read_csv(file, NoDtype)
         IN  IF r.err THEN EmptyFrame(CaptionLogColumns) ELSE r.df
    ELSE EmptyFrame(CaptionLogColumns)

\* the used set taken over every score of today
UsedTodayAnyScore(log, today_str, score) ==
    {log.rows[i]["caption"] :
        i \in {j \in 1..Len(log.rows) : log.rows[j]["date"] = StrCell(today_str)}}

\* the captions logged for (today, score): line 465
UsedToday(log, today_str, score) ==
    {log.rows[i]["caption"] :
        i \in {j \in 1..Len(log.rows) :
                 /\ log.rows[j]["date"] = StrCell(today_str)
                 /\ log.rows[j]["score"] = NumCell(score)}}

\* lines 465-471 on the log as loaded; the first caption is logged and
\* returned whether used or not
PickFirstAlways(log, captions, score, today_str, file) ==
    IF captions = <<>> THEN [raised |-> FALSE, ret |-> DefaultCaption, file |-> file]
    ELSE [raised |-> FALSE, ret |-> captions[1],
          file |-> to_csv(ConcatRow(log, CaptionLogColumns,
                             [col \in Range(CaptionLogColumns) |->
                                IF col = "date" THEN StrCell(today_str)
                                ELSE IF col = "score" THEN NumCell(score)
                                ELSE StrCell(captions[1])]))]

\* lines 465-471 on the log as loaded, the first caption logged once more
\* when every caption is used
PickRelogsRepeat(log, captions, score, today_str, file) ==
    LET used == UsedToday(log, today_str, score)
        fresh == {i \in 1..Len(captions) : StrCell(captions[i]) \notin used}
    IN  IF captions = <<>>
        THEN [raised |-> FALSE, ret |-> DefaultCaption, file |-> file]
        ELSE LET c == IF fresh # {}
                      THEN captions[CHOOSE i \in fresh : \A j \in fresh : i <= j]
                      ELSE captions[1]
             IN  [raised |-> FALSE, ret |-> c,
                  file |-> to_csv(ConcatRow(log, CaptionLogColumns,
                              [col \in Range(CaptionLogColumns) |->
                                 IF col = "date" THEN StrCell(today_str)
                                 ELSE IF col = "score" THEN NumCell(score)
                                 ELSE StrCell(c)]))]

\* lines 465-471 on the log as loaded: [raised |-> TRUE] when a column of the
\* log is missing (KeyError), else the caption returned and the file as it is
\* left
PickFrom(log, captions, score, today_str, file) ==
    IF ~(Range(CaptionLogColumns) \subseteq Range(log.columns))
    THEN [raised |-> TRUE, ret |-> "", file |-> file]
    ELSE LET used == UsedToday(log, today_str, score)
             fresh == {i \in 1..Len(captions) : StrCell(captions[i]) \notin used}
         IN  IF fresh # {}
             THEN LET c == captions[CHOOSE i \in fresh : \A j \in fresh : i <= j]
                  IN  [raised |-> FALSE, ret |-> c,
                       file |-> to_csv(ConcatRow(log, CaptionLogColumns,
                                   [col \in Range(CaptionLogColumns) |->
                                      IF col = "date" THEN StrCell(today_str)
                                      ELSE IF col = "score" THEN NumCell(score)
                                      ELSE StrCell(c)]))]
             ELSE [raised |-> FALSE,
                   ret |-> IF captions # <<>> THEN captions[1] ELSE DefaultCaption,
                   file |-> file]

pick_unused_today(captions, score, today_str, file) ==
    PickFrom(LoadCaptionLog(file), captions, score, today_str, file)

-----------------------------------------------------------------------------
(* Captions: format_topics_sentence, build_summary_variants                 *)
(* A template is <<text before {topics}, text after it>>; an emoji is       *)
(* written as its short code.                                               *)

Tones == {"Classic", "Gen-Z", "Pidgin"}

CLASSIC_SUMMARY_TEMPLATES ==
    << <<"Top stories: ", " lead today.">>,
       <<"", " dominate the headlines.">>,
       <<"Today's cycle is driven by ", ".">> >>

GENZ_SUMMARY_TEMPLATES ==
    << <<"Top stories: ", " " \o EM_DASH \o " TL is hot. :fire:">>,
       <<"Heads up: ", "; low-key tense. :dizzy:">>,
       <<"", " running the TL today. :zap:">> >>

PIDGIN_SUMMARY_TEMPLATES ==
    << <<"Main gist: ", " dey lead today.">>,
       <<"Na ", " dey top gist.">>,
       <<"Today matter na ", ".">> >>

format_topics_sentence(topics0) ==
    LET topics == SelectSeq(topics0, LAMBDA t : t # "")
    IN  IF topics = <<>> THEN "key issues"
        ELSE IF Len(topics) = 1 THEN topics[1]
        ELSE IF Len(topics) = 2 THEN topics[1] \o " and " \o topics[2]
        ELSE topics[1] \o ", " \o topics[2] \o " and " \o topics[3]

\* lines 448-452: the first occurrence of every text, in order
RECURSIVE DedupExact(_, _)
DedupExact(texts, seen) ==
    IF texts = <<>> THEN <<>>
    ELSE IF Head(texts) \notin seen
    THEN <<Head(texts)>> \o DedupExact(Tail(texts), seen \cup {Head(texts)})
    ELSE DedupExact(Tail(texts), seen)

\* every order random.shuffle can leave a list in
Shuffles(out) ==
    {[i \in 1..Len(out) |-> out[p[i]]] :
        p \in {q \in [1..Len(out) -> 1..Len(out)] :
                  \A i, j \in 1..Len(out) : q[i] = q[j] => i = j}}

\* build_summary_variants, given the phrases extract_topics returned: the set
\* of lists it can return
build_summary_variants(topics, tn) ==
    LET topic_sentence == format_topics_sentence(topics)
        temps == IF tn = "Gen-Z" THEN GENZ_SUMMARY_TEMPLATES
                 ELSE IF tn = "Pidgin" THEN PIDGIN_SUMMARY_TEMPLATES
                 ELSE CLASSIC_SUMMARY_TEMPLATES
        variants == [i \in 1..Len(temps) |-> temps[i][1] \o topic_sentence \o temps[i][2]]
    IN  Shuffles(DedupExact(variants, {}))

-----------------------------------------------------------------------------
(* Topics: _tokens, _is_bad_topic, _nice_title, _tidy_topic, _clean_topics,  *)
(* extract_topics                                                           *)

STOPWORDS ==
    {"a", "an", "and", "the", "is", "are", "was", "were", "be", "been", "being",
     "of", "to", "in", "for", "on", "at", "by", "with", "from", "up", "down",
     "over", "under", "into", "out", "as", "about", "after", "before", "during",
     "around", "across", "between", "against", "through", "while", "due", "per",
     "via", "i", "you", "he", "she", "it", "we", "they", "them", "us", "our",
     "your", "their", "my", "his", "her", "its", "this", "that", "these",
     "those", "will", "would", "can", "could", "shall", "should", "may",
     "might", "must", "not", "no", "yes", "do", "does", "did", "doing", "done",
     "than", "then", "there", "here", "where", "who", "whom", "whose", "which",
     "what", "why", "how", "new", "govt", "government", "nigeria", "nigerian",
     "lagos", "abuja", "kano", "state", "federal", "local", "today", "news"}

BAD_TOPIC_TOKENS ==
    {"says", "said", "say", "saying", "tells", "told", "urges", "reacts", "vows",
     "meets", "seeks", "slams", "backs", "hails", "warns", "admits", "alleges",
     "claims", "video", "photos", "picture", "watch", "live", "update",
     "updates", "headline", "headlines", "report", "reports", "story",
     "stories", "breaking", "latest", "south", "north", "east", "west",
     "centre", "central", "statewide", "state-wide", "nationwide"}

\* the keys of ACRONYM_UPCASE: each maps to its upper-case form
ACRONYM_UPCASE ==
    {"cbn", "efcc", "nnpc", "fg", "nlng", "imf", "opec", "pdp", "apc", "inec",
     "nlc", "tuc", "asuu"}

SMALL_WORDS == {"and", "or", "the", "of", "in", "on", "at", "to", "for", "by", "with"}

\* the index of the first character of s that is not in class, Len(s) + 1 when
\* all are
FirstNotIn(s, class) ==
    IF \E i \in 1..Len(s) : Ch(s, i) \notin class
    THEN CHOOSE i \in 1..Len(s) :
             Ch(s, i) \notin class /\ \A j \in 1..(i - 1) : Ch(s, j) \in class
    ELSE Len(s) + 1

\* [w.lower() for w in re.findall(r"[a-zA-Z][a-zA-Z\-]+", text)]: a match starts
\* on a letter and takes the whole run of letters and hyphens that follows, if
\* the run has two characters or more
RECURSIVE _tokens(_)
_tokens(text) ==
    LET n == FirstIn(text, LowerSet \cup UpperSet)
        t == Drop(text, n - 1)
        m == FirstNotIn(t, LowerSet \cup UpperSet \cup {"-"})
    IN  IF n > Len(text) THEN <<>>
        ELSE IF m - 1 >= 2
        THEN <<Lower(SubSeq(t, 1, m - 1))>> \o _tokens(Drop(t, m - 1))
        ELSE _tokens(Drop(t, 1))

_is_bad_topic(t) ==
    LET tl == Lower(t)
        parts == Split(tl)
    IN  \/ tl \in BAD_TOPIC_TOKENS \/ tl \in STOPWORDS
        \/ \E b \in BRAND_BLOCKLIST : Contains(tl, b)
        \/ Len(tl) < 4
        \/ tl \in {"south", "north", "east", "west"}
        \/ Len(parts) > 6
        \/ \E i \in 1..Len(parts) : Len(parts[i]) > 18

_nice_title(word) ==
    LET \* all(part.isalpha() for part in w.split("-"))
        HyphenPartsAlpha ==
            /\ \A i \in 1..Len(word) : Ch(word, i) \in LowerSet \cup UpperSet \cup {"-"}
            /\ word # ""
            /\ Ch(word, 1) # "-" /\ Ch(word, Len(word)) # "-"
            /\ \A i \in 1..(Len(word) - 1) : ~(Ch(word, i) = "-" /\ Ch(word, i + 1) = "-")
        w == IF Contains(word, "-") /\ HyphenPartsAlpha
             THEN ReplaceCh(word, "-", EN_DASH) ELSE word
        \* the characters re.split(r"(\s+|<en dash>|-)", w) splits w at
        Separators == SpaceSet \cup {EN_DASH, "-"}
        \* the part of w, between two separators, that holds position i
        PartAt(i) ==
            LET before == {j \in 1..i : Ch(w, j) \in Separators}
                after == {j \in i..Len(w) : Ch(w, j) \in Separators}
                a == IF before = {} THEN 1 ELSE MaxOf(before) + 1
                b == IF after = {} THEN Len(w)
                     ELSE (CHOOSE j \in after : \A k \in after : j <= k) - 1
            IN  [from |-> a, text |-> SubSeq(w, a, b)]
        \* str.upper() on one character
        UpperCh(c) ==
            IF c \in LowerSet THEN (CHOOSE p \in LowerPairs : p[2] = c)[1] ELSE c
    IN  Join([i \in 1..Len(w) |->
                 IF Ch(w, i) \in Separators THEN Ch(w, i)
                 ELSE LET p == PartAt(i)
                          low == Lower(p.text)
                      IN  IF low \in ACRONYM_UPCASE THEN UpperCh(Ch(low, i - p.from + 1))
                          ELSE IF low \in SMALL_WORDS THEN Ch(low, i - p.from + 1)
                          ELSE IF i = p.from THEN UpperCh(Ch(w, i))
                          ELSE Ch(w, i)], 1, Len(w))

_tidy_topic(t) ==
    LET \* \b of re before position i of s (i in 1..Len(s) + 1)
        WordBoundary(s, i) ==
            (i > 1 /\ IsWordCh(Ch(s, i - 1))) # (i <= Len(s) /\ IsWordCh(Ch(s, i)))
        \* s without the characters at the positions in covered
        RemoveAt(s, covered) ==
            Join([i \in 1..Len(s) |-> IF i \in covered THEN "" ELSE Ch(s, i)], 1, Len(s))
        \* line 328: re.sub(r"^(why|how|...|during)\b[\s:,-]*", "", s, re.IGNORECASE)
        LeadWords == <<"why", "how", "when", "what", "as", "amid", "after", "before",
                       "during">>
        StripLeadWord(s) ==
            LET hits == {k \in 1..Len(LeadWords) :
                            /\ StartsWith(Lower(s), LeadWords[k])
                            /\ WordBoundary(s, Len(LeadWords[k]) + 1)}
            IN  IF hits = {} THEN s
                ELSE LET k == CHOOSE x \in hits : \A y \in hits : x <= y
                         rest == Drop(s, Len(LeadWords[k]))
                     IN  Drop(rest, FirstNotIn(rest, SpaceSet \cup {":", ",", "-"}) - 1)
        \* line 329: re.sub(r"\b(says|urges|...|claims)\b", "", s, re.IGNORECASE); a
        \* match lies between two word boundaries, so no two matches overlap
        ReportingVerbs == {"says", "urges", "vows", "warns", "backs", "hails", "reacts",
                           "alleges", "claims"}
        RemoveReportingVerbs(s) ==
            RemoveAt(s, {i \in 1..Len(s) :
                            \E v \in ReportingVerbs :
                               \E j \in (i - Len(v) + 1)..i :
                                  /\ j >= 1 /\ j + Len(v) - 1 <= Len(s)
                                  /\ Lower(SubSeq(s, j, j + Len(v) - 1)) = v
                                  /\ WordBoundary(s, j) /\ WordBoundary(s, j + Len(v))})
        \* line 330: re.sub(r"\b(19|20)\d{2}\b", "", s)
        RemoveYears(s) ==
            RemoveAt(s, {i \in 1..Len(s) :
                            \E j \in (i - 3)..i :
                               /\ j >= 1 /\ j + 3 <= Len(s)
                               /\ SubSeq(s, j, j + 1) \in {"19", "20"}
                               /\ IsDigitCh(Ch(s, j + 2)) /\ IsDigitCh(Ch(s, j + 3))
                               /\ WordBoundary(s, j) /\ WordBoundary(s, j + 4)})
        \* line 331: re.sub(r"\b(PDP)\s*,\s*(APC)\b", r"\1/\2", s, re.IGNORECASE):
        \* the whitespace and the one comma between the two names become "/"
        JoinPdpApc(s) ==
            LET between == {i \in 1..Len(s) : Ch(s, i) \in SpaceSet \cup {","}}
                gaps == {g \in between \X between :
                            /\ g[1] <= g[2] /\ g[1] >= 4 /\ g[2] + 3 <= Len(s)
                            /\ Lower(SubSeq(s, g[1] - 3, g[1] - 1)) = "pdp"
                            /\ WordBoundary(s, g[1] - 3)
                            /\ Lower(SubSeq(s, g[2] + 1, g[2] + 3)) = "apc"
                            /\ WordBoundary(s, g[2] + 4)
                            /\ \E c \in g[1]..g[2] :
                                  /\ Ch(s, c) = ","
                                  /\ \A x \in (g[1]..g[2]) \ {c} : IsSpaceCh(Ch(s, x))}
            IN  Join([i \in 1..Len(s) |->
                         IF \E g \in gaps : i = g[1] THEN "/"
                         ELSE IF \E g \in gaps : g[1] < i /\ i <= g[2] THEN ""
                         ELSE Ch(s, i)], 1, Len(s))
        \* line 333: re.sub(r"\s{2,}", " ", s): every run of two or more whitespace
        \* characters becomes one space
        CollapseSpaceRuns(s) ==
            Join([i \in 1..Len(s) |->
                     IF ~IsSpaceCh(Ch(s, i)) THEN Ch(s, i)
                     ELSE IF i > 1 /\ IsSpaceCh(Ch(s, i - 1)) THEN ""
                     ELSE IF i < Len(s) /\ IsSpaceCh(Ch(s, i + 1)) THEN " "
                     ELSE Ch(s, i)], 1, Len(s))
        \* str.strip(chars)
        StripChars(s, chars) ==
            LET keep == {i \in 1..Len(s) : Ch(s, i) \notin chars}
            IN  IF keep = {} THEN ""
                ELSE SubSeq(s, CHOOSE i \in keep : \A j \in keep : i <= j, MaxOf(keep))
        s1 == StripLeadWord(Strip(t))
        s2 == RemoveReportingVerbs(s1)
        s3 == RemoveYears(s2)
        s4 == JoinPdpApc(s3)
        s5 == CollapseCommas(s4)
        s6 == StripChars(CollapseSpaceRuns(s5),
                         {" ", ",", ";", ":", EM_DASH, EN_DASH, "-"})
    IN  _nice_title(s6)

\* lines 340-348: the topics kept, tidied
RECURSIVE TidyKept(_)
TidyKept(raw_topics) ==
    IF raw_topics = <<>> THEN <<>>
    ELSE LET t == Head(raw_topics)
             t2 == _tidy_topic(t)
         IN  (IF _is_bad_topic(t) \/ Len(ReplaceCh(t, " ", "")) < 4 \/ Len(t2) < 4
              THEN <<>> ELSE <<t2>>) \o TidyKept(Tail(raw_topics))

\* lines 350-355: the first topic of every key t.lower().strip(), in order
RECURSIVE DedupLower(_, _)
DedupLower(topics, seen) ==
    IF topics = <<>> THEN <<>>
    ELSE LET k == Strip(Lower(Head(topics)))
         IN  IF k \notin seen
             THEN <<Head(topics)>> \o DedupLower(Tail(topics), seen \cup {k})
             ELSE DedupLower(Tail(topics), seen)

\* _clean_topics without lines 350-355
_clean_topics_keep_all(raw_topics) == TidyKept(raw_topics)

_clean_topics(raw_topics) == DedupLower(TidyKept(raw_topics), {})

\* lines 359-368: of every headline in turn, its tokens that are no stopword
\* and have 4 characters or more, then its bigrams of two tokens that are no
\* stopwords
RECURSIVE AllWords(_)
AllWords(headlines) ==
    IF headlines = <<>> THEN <<>>
    ELSE LET toks == Computed(_tokens(Head(headlines)))
             bigrams == [i \in 1..(Len(toks) - 1) |-> toks[i] \o " " \o toks[i + 1]]
         IN  SelectSeq(toks, LAMBDA w : w \notin STOPWORDS /\ Len(w) >= 4)
                \o SelectSeq(bigrams, LAMBDA bg : /\ Split(bg)[1] \notin STOPWORDS
                                                  /\ Split(bg)[2] \notin STOPWORDS)
                \o AllWords(Tail(headlines))

\* counts.most_common(n): the keys by falling count, keys of equal count in the
\* order they were first counted
MostCommon(keys, count, n) ==
    LET rank == Computed([i \in 1..Len(keys) |->
                    1 + Cardinality({j \in 1..Len(keys) :
                                        \/ count[j] > count[i]
                                        \/ count[j] = count[i] /\ j < i})])
        m == IF Len(keys) < n THEN Len(keys) ELSE n
    IN  [r \in 1..m |-> keys[CHOOSE i \in 1..Len(keys) : rank[i] = r]]

top_n == 12

\* extract_topics(headlines, top_n=12), each local of the source bound once.
\* A bigram's count c becomes int(c * 1.3), which is the integer part of
\* 13c / 10 for every c below 2000
extract_topics(headlines) ==
    LET \* line 369: Counter keeps its keys in the order they first came
        KeysOf(words) ==
            LET firsts == {i \in 1..Len(words) :
                              \A j \in 1..(i - 1) : words[j] # words[i]}
            IN  [r \in 1..Cardinality(firsts) |->
                    words[CHOOSE i \in firsts :
                             Cardinality({j \in firsts : j <= i}) = r]] @@ <<>>
        \* lines 369-372
        CountsOf(words, keys) ==
            [i \in 1..Len(keys) |->
                LET c == Cardinality({j \in 1..Len(words) : words[j] = keys[i]})
                IN  IF Contains(keys[i], " ") THEN (13 * c) \div 10 ELSE c] @@ <<>>
        \* lines 376-381
        Final(top) ==
            LET multis == SelectSeq(top, LAMBDA t : Contains(t, " "))
                singles == SelectSeq(top, LAMBDA t : ~Contains(t, " "))
                two == IF Len(multis) < 2 THEN Len(multis) ELSE 2
                final == SubSeq(multis, 1, two)
                            \o SubSeq(singles, 1, IF Len(singles) < 3 - two
                                                  THEN Len(singles) ELSE 3 - two)
                padded == IF Len(final) < 2
                          THEN SubSeq(multis \o singles, 1,
                                      IF Len(multis \o singles) < 2
                                      THEN Len(multis \o singles) ELSE 2)
                          ELSE final
            IN  SubSeq(padded, 1, IF Len(padded) < 3 THEN Len(padded) ELSE 3)
    IN  CHOOSE result \in
            {Final(top) :
                top \in {_clean_topics(raw_top) :
                    raw_top \in UNION {UNION {{MostCommon(keys, counts, top_n * 2) :
                                                 counts \in {CountsOf(words, keys)}} :
                                              keys \in {KeysOf(words)}} :
                                       words \in {AllWords(headlines)}}}} : TRUE

-----------------------------------------------------------------------------
(* Bounds of the model and the inputs drawn within them                     *)

MaxReplyLen == 3        \* longest generated reply text
MaxBatch == 3           \* most headlines in a batch handed to score_categories
MaxSegments == 3        \* most segments a raw tag text is made of
MaxDay == 2             \* days the clock runs through
MaxLogRows == 3         \* most rows the caption log grows to by direct calls
MaxRunRows == 2         \* most rows the caption log grows to by runs of the app

Scores == 1..5

\* the scores of the rows a log holds before a run of calls, and of that run
ScoreInputs == {2, 4}

\* the score pick_unused_today is called with directly
PickScores == {2}

appVars == <<today, HISTORY_CSV, CAPTION_LOG_CSV, tone, all_headlines,
             wahala_score_text, wahala_num, summary, calls>>

NoCalls == [date |-> "", score |-> 0, cands |-> {}, fresh |-> FALSE, rets |-> <<>>]

\* the app as started: no file written yet, the sidebar at its default (index=1)
Quiet ==
    /\ today = 1
    /\ HISTORY_CSV = AbsentFile
    /\ CAPTION_LOG_CSV = AbsentFile
    /\ tone = "Gen-Z"
    /\ all_headlines = <<>>
    /\ wahala_score_text = ""
    /\ wahala_num = None
    /\ summary = ""
    /\ calls = NoCalls

-----------------------------------------------------------------------------
(* SpecParse: _parse_first_digit_1_to_5 applied to a reply text             *)

ReplyAlphabet == {"0", "1", "3", "5", "6", "9", "a", " "}

ReplyTexts ==
    TextsUpTo(ReplyAlphabet, MaxReplyLen) \cup {"I'd say 4 out of 5", "no clue", "2024"}

InitParse ==
    /\ pc = "reply"
    /\ arg \in ReplyTexts
    /\ ret = None
    /\ outcome = "idle"
    /\ Quiet

ParseReply ==
    /\ pc = "reply"
    /\ ret' = _parse_first_digit_1_to_5(arg)
    /\ pc' = "parsed"
    /\ UNCHANGED <<arg, outcome, appVars>>

NextParse == ParseReply

SpecParse == InitParse /\ [][NextParse]_vars

-----------------------------------------------------------------------------
(* SpecCat: score_categories applied to a batch of headlines                *)

HeadlinePool ==
    {"Senate Passes Fuel Subsidy Removal Bill After Heated Debate",
     "Naira Slides Further Against Dollar Amid Forex Crunch",
     "Bandits Attack Village In Kaduna State",
     "ASUU Strike Looms As Talks Stall",
     "Super Eagles Win Friendly Match In Uyo"}

RECURSIVE SeqsUpTo(_, _)
SeqsUpTo(S, n) ==
    IF n = 0 THEN {<<>>}
    ELSE LET shorter == SeqsUpTo(S, n - 1)
         IN  shorter \cup {<<x>> \o t : x \in S, t \in shorter}

InitCat ==
    /\ pc = "batch"
    /\ arg \in SeqsUpTo(HeadlinePool, MaxBatch)
    /\ ret = <<>>
    /\ outcome = "idle"
    /\ Quiet

ScoreCategories ==
    /\ pc = "batch"
    /\ ret' = score_categories(arg)
    /\ pc' = "scored"
    /\ UNCHANGED <<arg, outcome, appVars>>

NextCat == ScoreCategories

SpecCat == InitCat /\ [][NextCat]_vars

-----------------------------------------------------------------------------
(* SpecTopics: extract_topics applied to a batch of headlines               *)

TopicHeadlines ==
    {"CBN says fuel subsidy stays",
     "Amid fuel-price hike, ASUU strike looms",
     "Fuel says",
     "Naira slides against the dollar",
     "FG, CBN meet"}

InitTopics ==
    /\ pc = "headlines"
    /\ arg \in SeqsUpTo(TopicHeadlines, MaxBatch)
    /\ ret = <<>>
    /\ outcome = "idle"
    /\ Quiet

ExtractTopics ==
    /\ pc = "headlines"
    /\ ret' = extract_topics(arg)
    /\ pc' = "topics"
    /\ UNCHANGED <<arg, outcome, appVars>>

NextTopics == ExtractTopics

SpecTopics == InitTopics /\ [][NextTopics]_vars

-----------------------------------------------------------------------------
(* SpecNorm: a raw tag text cleaned as fetch_headlines_from does (lines     *)
(* 204-211), and the kept headline normalised once more                     *)

SegmentPool ==
    {"Punch ", "Punch: ", "Vanguard" \o EM_DASH \o " ",
     "Senate passes fuel subsidy bill", " " \o ELLIPSIS \o " ", ", ,, ",
     "NewsWhy ", "sponsored post "}

RECURSIVE Concats(_, _)
Concats(S, n) ==
    IF n = 0 THEN {""}
    ELSE LET shorter == Concats(S, n - 1)
         IN  shorter \cup {x \o t : x \in S, t \in shorter}

RawTexts == Concats(SegmentPool, MaxSegments)

InitNorm ==
    /\ pc = "raw"
    /\ arg \in RawTexts
    /\ ret = <<>>
    /\ outcome = "idle"
    /\ Quiet

\* lines 204-211 for one tag: the text is dropped or kept as a headline
CleanTag ==
    /\ pc = "raw"
    /\ ret' = CleanTexts(<<arg>>)
    /\ pc' = IF ret' = <<>> THEN "dropped" ELSE "headline"
    /\ UNCHANGED <<arg, outcome, appVars>>

Renormalize ==
    /\ pc = "headline"
    /\ ret' = Append(ret, _normalize_headline(ret[1]))
    /\ pc' = "renormalized"
    /\ UNCHANGED <<arg, outcome, appVars>>

NextNorm == CleanTag \/ Renormalize

SpecNorm == InitNorm /\ [][NextNorm]_vars

-----------------------------------------------------------------------------
(* The stores called directly: pick_unused_today, _save_today, and the      *)
(* clock passing midnight                                                   *)

\* the phrases the captions of the inputs are rendered for
TopicsInput == <<"Fuel Subsidy", "Naira">>

\* the captions of one tone for these phrases, in template order
ToneCaptions ==
    CHOOSE l \in build_summary_variants(TopicsInput, "Gen-Z") :
        \A i \in 1..Len(l) :
            l[i] = GENZ_SUMMARY_TEMPLATES[i][1] \o format_topics_sentence(TopicsInput)
                   \o GENZ_SUMMARY_TEMPLATES[i][2]

\* every list of distinct members of S (lines 448-452 leave no caption twice
\* in a list), the empty list included
DistinctLists(S) ==
    {l \in SeqsUpTo(S, Cardinality(S)) : \A i, j \in 1..Len(l) : l[i] = l[j] => i = j}

\* the candidate lists of the calls made with arbitrary arguments
CaptionPool == {ToneCaptions[1], ToneCaptions[2]}

\* a caption no template renders, which read_csv takes for a missing value
UnrenderedCaption == "NA"

CandidateLists == DistinctLists(CaptionPool) \cup {<<UnrenderedCaption>>}

\* (\E x \in {e} binds x to the value of e, evaluated once)
PickUnusedToday ==
    /\ pc \in {"ready", "once"}
    /\ \E captions \in CandidateLists, score \in PickScores :
       \E r \in {pick_unused_today(captions, score, IsoDate(today), CAPTION_LOG_CSV)} :
          /\ Len(r.file.rows) <= MaxLogRows
          /\ CAPTION_LOG_CSV' = r.file
          /\ ret' = r.ret
          /\ outcome' = IF r.raised THEN "raised" ELSE "picked"
          /\ arg' = [op |-> "pick", captions |-> captions, score |-> score,
                     before |-> AbsentFile]
    /\ pc' = IF pc = "once" THEN "called" ELSE pc
    /\ UNCHANGED <<today, HISTORY_CSV, tone, all_headlines, wahala_score_text,
                   wahala_num, summary, calls>>

SaveToday ==
    /\ pc \in {"ready", "once"}
    /\ \E s \in Scores :
       \E r \in {_save_today(s, IsoDate(today), HISTORY_CSV)} :
          /\ HISTORY_CSV' = r.file
          /\ outcome' = IF r.raised THEN "raised" ELSE "saved"
          /\ arg' = [op |-> "save", captions |-> <<>>, score |-> s,
                     before |-> HISTORY_CSV]
    /\ ret' = ""
    /\ pc' = IF pc = "once" THEN "called" ELSE pc
    /\ UNCHANGED <<today, CAPTION_LOG_CSV, tone, all_headlines, wahala_score_text,
                   wahala_num, summary, calls>>

Midnight ==
    /\ pc = "ready"
    /\ today < MaxDay
    /\ today' = today + 1
    /\ outcome' = "midnight"
    /\ UNCHANGED <<pc, arg, ret, HISTORY_CSV, CAPTION_LOG_CSV, tone, all_headlines,
                   wahala_score_text, wahala_num, summary, calls>>

NoCall == [op |-> "", captions |-> <<>>, score |-> 0, before |-> AbsentFile]

InitStores ==
    /\ pc = "ready"
    /\ arg = NoCall
    /\ ret = ""
    /\ outcome = "idle"
    /\ Quiet

NextCaptions == PickUnusedToday \/ Midnight

SpecCaptions == InitStores /\ [][NextCaptions]_vars

NextHistory == SaveToday \/ Midnight

SpecHistory == InitStores /\ [][NextHistory]_vars

\* a backing file as something other than the app may have left it
ZeroBytesFile == [exists |-> TRUE, parsable |-> TRUE, header |-> <<>>, rows |-> <<>>]
GarbageFile == [exists |-> TRUE, parsable |-> FALSE, header |-> <<>>, rows |-> <<>>]
OtherColumnsFile ==
    [exists |-> TRUE, parsable |-> TRUE, header |-> <<"day", "level">>,
     rows |-> << <<"monday", "3">> >>]

DegenerateFiles == {AbsentFile, ZeroBytesFile, GarbageFile, OtherColumnsFile}

InitCorrupt ==
    /\ pc = "once"
    /\ arg = NoCall
    /\ ret = ""
    /\ outcome = "idle"
    /\ today \in 1..MaxDay
    /\ HISTORY_CSV \in DegenerateFiles
    /\ CAPTION_LOG_CSV \in DegenerateFiles
    /\ tone = "Gen-Z"
    /\ all_headlines = <<>>
    /\ wahala_score_text = ""
    /\ wahala_num = None
    /\ summary = ""
    /\ calls = NoCalls

NextCorrupt == PickUnusedToday \/ SaveToday

SpecCorrupt == InitCorrupt /\ [][NextCorrupt]_vars

-----------------------------------------------------------------------------
(* SpecNonRepeat: consecutive pick_unused_today calls with one date, one    *)
(* score and one set of candidates, shuffled anew for every call, from a    *)
(* log that holds no row for that date and score                            *)

\* the logs that up to two earlier calls with a single candidate leave, made
\* yesterday or today
RECURSIVE LogsAfter(_, _)
LogsAfter(k, d) ==
    IF k = 0 THEN {AbsentFile}
    ELSE LET earlier == LogsAfter(k - 1, d)
         IN  earlier \cup
             {pick_unused_today(<<c>>, s, IsoDate(e), f).file :
                 c \in CaptionPool, s \in ScoreInputs, e \in {d - 1, d}, f \in earlier}

\* calls holds the date, score and candidates of the run of calls, fresh (the
\* log held no row for them when it began) and rets, the captions returned
InitNonRepeat ==
    /\ pc = "streak"
    /\ arg = NoCall
    /\ ret = ""
    /\ outcome = "idle"
    /\ today = MaxDay
    /\ HISTORY_CSV = AbsentFile
    /\ CAPTION_LOG_CSV \in LogsAfter(2, MaxDay)
    /\ tone = "Gen-Z"
    /\ all_headlines = <<>>
    /\ wahala_score_text = ""
    /\ wahala_num = None
    /\ summary = ""
    /\ \E S \in (SUBSET Range(ToneCaptions)) \ {{}}, score \in ScoreInputs :
          /\ \A i \in 1..Len(CAPTION_LOG_CSV.rows) :
                ~(/\ CAPTION_LOG_CSV.rows[i][1] = IsoDate(today)
                  /\ CAPTION_LOG_CSV.rows[i][2] = IntToText(score))
          /\ calls = [date |-> IsoDate(today), score |-> score, cands |-> S,
                      fresh |-> TRUE, rets |-> <<>>]

PickSameCandidates ==
    /\ pc = "streak"
    /\ Len(calls.rets) <= Cardinality(calls.cands)
    /\ \E captions \in {l \in DistinctLists(calls.cands) : Range(l) = calls.cands} :
       \E r \in {pick_unused_today(captions, calls.score, IsoDate(today), CAPTION_LOG_CSV)} :
          /\ CAPTION_LOG_CSV' = r.file
          /\ ret' = r.ret
          /\ outcome' = IF r.raised THEN "raised" ELSE "picked"
          /\ arg' = [op |-> "pick", captions |-> captions, score |-> calls.score,
                     before |-> AbsentFile]
          /\ calls' = [calls EXCEPT !.rets = Append(@, r.ret)]
    /\ UNCHANGED <<pc, today, HISTORY_CSV, tone, all_headlines, wahala_score_text,
                   wahala_num, summary>>

NextNonRepeat == PickSameCandidates

SpecNonRepeat == InitNonRepeat /\ [][NextNonRepeat]_vars

-----------------------------------------------------------------------------
(* Spec: the app as its user drives it through one day. Run is one press of *)
(* the button "Analyze Today's Wahala Level" (lines 483-574), SetTone a     *)
(* change of the sidebar's tone.                                            *)

\* the keys of SOURCES, in the dict's order
SOURCES ==
    <<"Punch", "Vanguard", "Premium Times", "Daily Trust", "TheCable", "Naija News">>

\* web maps a source's name to the page its URL serves
fetch_all_sources(web) ==
    [name \in Range(SOURCES) |-> fetch_headlines_from(web[name])]

\* line 487: [h for lst in source_map.values() for h in lst], from the k-th source
RECURSIVE AllHeadlinesFrom(_, _)
AllHeadlinesFrom(source_map, k) ==
    IF k > Len(SOURCES) THEN <<>>
    ELSE source_map[SOURCES[k]] \o AllHeadlinesFrom(source_map, k + 1)

\* the oracle either answers with a message content or raises an exception
\* whose str() is text
get_wahala_score_from_llm(oracle) ==
    IF oracle.ok THEN Strip(oracle.text) ELSE "Error: " \o oracle.text

\* pages as the sites may serve them
PageDown == [ok |-> FALSE, tags |-> <<>>]

PageFront ==
    [ok |-> TRUE,
     tags |-> <<"Home", "Senate passes fuel subsidy bill",
                "Punch: Senate passes fuel subsidy bill",
                "Naira slides against the dollar",
                "Sponsored post: win big today">>]

PageWire ==
    [ok |-> TRUE,
     tags |-> <<"Senate Passes Fuel Subsidy Bill",
                "Bandits attack village in Kaduna",
                "ASUU strike looms as talks stall">>]

\* every site down; one site up; all sites up, some carrying the same story
WebStates ==
    {[name \in Range(SOURCES) |-> PageDown],
     [name \in Range(SOURCES) |-> IF name = "Punch" THEN PageFront ELSE PageDown],
     [name \in Range(SOURCES) |->
         IF name \in {"Punch", "Premium Times", "TheCable"} THEN PageFront ELSE PageWire]}

\* each state of the web with what lines 486-487, line 507 and line 438 compute
\* from it: the run's headlines, their category scores and their topic phrases
WebRuns ==
    UNION {{[web |-> web,
             all_headlines |-> h,
             categories |-> score_categories(h),
             topics |-> extract_topics(h)] :
               h \in {AllHeadlinesFrom(fetch_all_sources(web), 1)}} :
           web \in WebStates}

\* what the oracle call can do: answer, or fail with an exception
OracleOutcomes ==
    {[ok |-> TRUE, text |-> " 4\n"],
     [ok |-> TRUE, text |-> "Level 7."],
     [ok |-> FALSE, text |-> "Connection error."],
     [ok |-> FALSE, text |-> "Error code: 429 - rate limit exceeded"]}

\* the oracle is not called by a run that gathered too few headlines
NotCalled == [ok |-> TRUE, text |-> ""]

NoRun == [web |-> [name \in Range(SOURCES) |-> PageDown], oracle |-> NotCalled]

Init ==
    /\ pc = "ready"
    /\ arg = NoRun
    /\ ret = <<>>
    /\ outcome = "idle"
    /\ Quiet

\* One run of the script with the button pressed. arg keeps the run's inputs
\* (the pages served and what the oracle did), ret the category scores, and
\* outcome how the run ended: "too_few" (line 574), "confused" (lines 502-504),
\* "scored", or "raised" when a store call raised.
Run ==
    /\ pc = "ready"
    /\ \E run \in WebRuns :
          /\ all_headlines' = run.all_headlines
          /\ IF Len(run.all_headlines) >= 10
             THEN \E oracle \in OracleOutcomes :
                  \E text \in {get_wahala_score_from_llm(oracle)} :
                  \E num \in {_parse_first_digit_1_to_5(text)} :
                     /\ arg' = [web |-> run.web, oracle |-> oracle]
                     /\ wahala_score_text' = text
                     /\ wahala_num' = num
                     /\ IF Truthy(num)
                        THEN \E summary_options \in
                                    build_summary_variants(run.topics, tone) :
                             \E p \in {pick_unused_today(summary_options, num[1],
                                                         IsoDate(today), CAPTION_LOG_CSV)} :
                                /\ Len(p.file.rows) <= MaxRunRows
                                /\ CAPTION_LOG_CSV' = p.file
                                /\ IF p.raised
                                   THEN /\ summary' = ""
                                        /\ ret' = <<>>
                                        /\ outcome' = "raised"
                                        /\ UNCHANGED HISTORY_CSV
                                   ELSE \E s \in {_save_today(num[1], IsoDate(today),
                                                              HISTORY_CSV)} :
                                           /\ summary' = p.ret
                                           /\ ret' = run.categories
                                           /\ HISTORY_CSV' = s.file
                                           /\ outcome' = IF s.raised THEN "raised"
                                                         ELSE "scored"
                        ELSE /\ summary' = "Couldn't decode the vibes from today's headlines."
                             /\ ret' = run.categories
                             /\ outcome' = "confused"
                             /\ UNCHANGED <<HISTORY_CSV, CAPTION_LOG_CSV>>
             ELSE /\ arg' = [web |-> run.web, oracle |-> NotCalled]
                  /\ wahala_score_text' = ""
                  /\ wahala_num' = None
                  /\ summary' = ""
                  /\ ret' = <<>>
                  /\ outcome' = "too_few"
                  /\ UNCHANGED <<HISTORY_CSV, CAPTION_LOG_CSV>>
    /\ UNCHANGED <<pc, today, tone, calls>>

\* line 183: the selectbox is set to another tone
SetTone ==
    /\ pc = "ready"
    /\ \E t \in Tones \ {tone} : tone' = t
    /\ UNCHANGED <<pc, arg, ret, today, HISTORY_CSV, CAPTION_LOG_CSV, all_headlines,
                   wahala_score_text, wahala_num, summary, outcome, calls>>

Next == Run \/ SetTone

Spec == Init /\ [][Next]_vars

-----------------------------------------------------------------------------
(* Claims about the pure functions                                          *)

\* the positions of text that hold one of the characters 1, 2, 3, 4, 5
ScorePositions(text) ==
    {i \in 1..Len(text) : \E d \in Scores : Ch(text, i) = IntToText(d)}

\* C4: the parsed score is the value of the leftmost character of the reply
\* that lies in '1'..'5', and there is no score exactly when the reply holds no
\* such character; '0' and '6'..'9' never give a score.
C4_ParseLeftmost1To5 ==
    pc = "parsed" =>
        LET hits == ScorePositions(arg)
        IN  /\ (ret = None) <=> (hits = {})
            /\ hits # {} =>
                  LET first == CHOOSE i \in hits : \A j \in hits : i <= j
                  IN  \E d \in Scores : /\ Ch(arg, first) = IntToText(d)
                                        /\ ret = Some(d)
            /\ (arg = "I'd say 4 out of 5" => ret = Some(4))
            /\ (arg = "no clue" => ret = None)

\* C4 witness: a reply whose first digits are skipped before a 5 is found
C4_Witness == pc = "parsed" /\ arg = "965" /\ ret = Some(5)

\* C8: every category's heat score is an integer in 1..5, and a category
\* without a hit has heat score 1.
C8_HeatFloorAndRange ==
    pc = "scored" =>
        \A cat \in DOMAIN CATEGORIES :
            /\ ret.scores[cat] \in 1..5
            /\ ret.counts[cat] = 0 => ret.scores[cat] = 1

\* C8 witness: a batch with hits where some category has none and sits at 1
C8_Witness ==
    /\ pc = "scored"
    /\ \E cat \in DOMAIN CATEGORIES : ret.counts[cat] = 0 /\ ret.scores[cat] = 1
    /\ \E cat \in DOMAIN CATEGORIES : ret.counts[cat] >= 2

MaxHits(counts) == MaxOf({counts[cat] : cat \in DOMAIN counts})

\* C9 as stated: every category whose hit count equals the maximum hit count
\* of the batch has heat score 5.
C9_MaxIsFive_AsStated ==
    pc = "scored" =>
        \A cat \in DOMAIN CATEGORIES :
            ret.counts[cat] = MaxHits(ret.counts) => ret.scores[cat] = 5

\* C9 amended: when some category has a hit, every category whose hit count
\* equals the maximum has heat score 5; when no category has a hit, all are
\* tied at the maximum 0 and every one has heat score 1.
C9_MaxIsFive ==
    pc = "scored" =>
        \A cat \in DOMAIN CATEGORIES :
            ret.counts[cat] = MaxHits(ret.counts) =>
                ret.scores[cat] = (IF MaxHits(ret.counts) >= 1 THEN 5 ELSE 1)

\* C9 witness: two categories tied at a maximum of at least 2, both at 5, and
\* a category below the maximum
C9_Witness ==
    /\ pc = "scored"
    /\ MaxHits(ret.counts) >= 2
    /\ \E c1, c2 \in DOMAIN CATEGORIES :
          /\ c1 # c2
          /\ ret.counts[c1] = MaxHits(ret.counts) /\ ret.scores[c1] = 5
          /\ ret.counts[c2] = MaxHits(ret.counts) /\ ret.scores[c2] = 5
    /\ \E c3 \in DOMAIN CATEGORIES :
          ret.counts[c3] \in 1..(MaxHits(ret.counts) - 1)

\* C10: normalising a kept headline again returns the identical string.
C10_NormalizeIdempotent ==
    pc = "renormalized" => ret[2] = ret[1]

-----------------------------------------------------------------------------
(* Claims about the stores                                                  *)

\* C1: from a log without a row for the date and score, N consecutive calls
\* with the same N distinct candidates (in any order) return N pairwise
\* distinct candidates, and call N+1 returns a candidate already returned; no
\* call raises.
C1_CaptionNonRepeat ==
    pc = "streak" =>
        LET N == Cardinality(calls.cands)
            k == Len(calls.rets)
        IN  /\ outcome # "raised"
            /\ \A i \in 1..k : calls.rets[i] \in calls.cands
            /\ \A i, j \in 1..k : (i <= N /\ j <= N /\ calls.rets[i] = calls.rets[j]) => i = j
            /\ k = N + 1 => \E i \in 1..N : calls.rets[i] = calls.rets[N + 1]

\* C1 witness: three candidates, four calls made, on a log that already held
\* rows of another date or score
C1_Witness ==
    /\ pc = "streak"
    /\ Cardinality(calls.cands) = 3
    /\ Len(calls.rets) = 4
    /\ Len(CAPTION_LOG_CSV.rows) = 5

ReadsBackAsWritten(caption) == caption \notin NA_VALUES /\ ~IsIntText(caption)

RowsOf(file, d) == SelectSeq(file.rows, LAMBDA row : row[1] = d)
RowsNotOf(file, d) == SelectSeq(file.rows, LAMBDA row : row[1] # d)

\* C3: after _save_today(s) the table holds exactly one row for today, with
\* score s, and the rows of every other date as they were; no reachable
\* history holds two rows for one date.
C3_SaveOverwritesToday ==
    pc = "ready" =>
        /\ \A i, j \in 1..Len(HISTORY_CSV.rows) :
              HISTORY_CSV.rows[i][1] = HISTORY_CSV.rows[j][1] => i = j
        /\ outcome = "saved" =>
              /\ HISTORY_CSV.header = HistoryColumns
              /\ RowsOf(HISTORY_CSV, IsoDate(today))
                    = << <<IsoDate(today), IntToText(arg.score)>> >>
              /\ RowsNotOf(HISTORY_CSV, IsoDate(today))
                    = RowsNotOf(arg.before, IsoDate(today))
              /\ \E i \in 1..Len(HISTORY_CSV.rows) :
                    /\ _load_history(HISTORY_CSV).rows[i]["date"] = StrCell(IsoDate(today))
                    /\ _load_history(HISTORY_CSV).rows[i]["wahala_score"] = NumCell(arg.score)

\* C3 witness: a second save for today, with another score, on a history that
\* also holds a row of another date
C3_Witness ==
    /\ pc = "ready"
    /\ outcome = "saved"
    /\ RowsOf(arg.before, IsoDate(today)) # <<>>
    /\ RowsOf(arg.before, IsoDate(today)) # RowsOf(HISTORY_CSV, IsoDate(today))
    /\ RowsNotOf(HISTORY_CSV, IsoDate(today)) # <<>>

\* C6: on a backing file that is absent, empty, unparsable or without the
\* expected columns, pick_unused_today and _save_today do not raise, and they
\* return and leave in the store what they do on an empty store.
C6_DegenerateStoreIsEmpty ==
    pc = "called" =>
        /\ outcome # "raised"
        /\ arg.op = "pick" =>
              /\ ret = pick_unused_today(arg.captions, arg.score, IsoDate(today),
                                         AbsentFile).ret
              /\ LoadCaptionLog(CAPTION_LOG_CSV)
                    = LoadCaptionLog(pick_unused_today(arg.captions, arg.score,
                                                       IsoDate(today), AbsentFile).file)
        /\ arg.op = "save" =>
              _load_history(HISTORY_CSV)
                 = _load_history(_save_today(arg.score, IsoDate(today), AbsentFile).file)

-----------------------------------------------------------------------------
(* Claims about a run of the app                                            *)

\* C5: a run in which the oracle call failed does not raise and ends in the
\* "Oracle Confused" state, with no score parsed out of the error text.
C5_OracleFailureIsConfused ==
    (outcome \in {"confused", "scored", "raised"} /\ ~arg.oracle.ok) =>
        /\ outcome = "confused"
        /\ wahala_num = None
        /\ _parse_first_digit_1_to_5(wahala_score_text) = None

\* the cleaned texts of all sources' pages, in the order of the sources
RECURSIVE CleanTextsOfSources(_, _)
CleanTextsOfSources(web, k) ==
    IF k > Len(SOURCES) THEN <<>>
    ELSE (IF web[SOURCES[k]].ok THEN CleanTexts(web[SOURCES[k]].tags) ELSE <<>>)
            \o CleanTextsOfSources(web, k + 1)

\* C7: no two headlines of a run's all_headlines share a dedup key, whichever
\* sources they came from, and all_headlines holds the first text of every key
\* in first-seen order.
C7_NoSharedKeyAcrossSources ==
    outcome # "idle" =>
        /\ \A i, j \in 1..Len(all_headlines) :
              i # j => DedupKey(all_headlines[i]) # DedupKey(all_headlines[j])
        /\ all_headlines = DedupFrom(CleanTextsOfSources(arg.web, 1), {})


-----------------------------------------------------------------------------
(* Claims about the topic phrases                                           *)

\* a phrase of more than one word
IsMultiWord(t) == Len(Split(t)) > 1

\* C11: extract_topics returns at most 3 phrases, each of 4 characters or
\* more, no two equal ignoring case, at most 2 of them of more than one word,
\* and those before every one-word phrase.
C11_TopicPhraseMinimality ==
    pc = "topics" =>
        /\ Len(ret) <= 3
        /\ \A i \in 1..Len(ret) : ret[i] # "" /\ Len(ret[i]) >= 4
        /\ \A i, j \in 1..Len(ret) : Lower(ret[i]) = Lower(ret[j]) => i = j
        /\ Cardinality({i \in 1..Len(ret) : IsMultiWord(ret[i])}) <= 2
        /\ \A i, j \in 1..Len(ret) :
              IsMultiWord(ret[j]) /\ ~IsMultiWord(ret[i]) => j < i

\* C11 witness: a batch with more than two phrases of two words and a word
\* that comes both alone and out of a tidied bigram, cut to two and one
C11_Witness ==
    /\ pc = "topics"
    /\ arg = <<"CBN says fuel subsidy stays">>
    /\ ret = <<"Fuel Subsidy", "Subsidy Stays", "Fuel">>


-----------------------------------------------------------------------------
(* Claims about what a call or a run writes                                 *)

\* the row pick_unused_today writes for caption c under (today, score)
LogRow(today_str, score, c) == <<today_str, IntToText(score), c>>

C13_StoresChangeOnlyOnScore ==
    [][/\ (HISTORY_CSV' # HISTORY_CSV \/ CAPTION_LOG_CSV' # CAPTION_LOG_CSV) =>
             /\ Len(all_headlines') >= 10
             /\ ScorePositions(wahala_score_text') # {}
             /\ \E n \in Scores : wahala_num' = Some(n)
       /\ Len(all_headlines') < 10 =>
             /\ arg'.oracle = NotCalled
             /\ wahala_num' = None
             /\ HISTORY_CSV' = HISTORY_CSV /\ CAPTION_LOG_CSV' = CAPTION_LOG_CSV
       /\ ScorePositions(wahala_score_text') = {} =>
             HISTORY_CSV' = HISTORY_CSV /\ CAPTION_LOG_CSV' = CAPTION_LOG_CSV
       /\ \A i \in 1..Len(HISTORY_CSV'.rows) :
             /\ IsIntText(HISTORY_CSV'.rows[i][2])
             /\ TextToInt(HISTORY_CSV'.rows[i][2]) \in Scores]_vars

\* C13 witness: a run with 15 headlines whose reply holds no score, after a
\* run that saved a score and logged a caption: both stores still hold them
C13_Witness ==
    /\ outcome = "confused"
    /\ Len(all_headlines) >= 10
    /\ arg.oracle = [ok |-> TRUE, text |-> "Level 7."]
    /\ wahala_num = None
    /\ HISTORY_CSV.rows = <<<<IsoDate(today), "4">>>>
    /\ Len(CAPTION_LOG_CSV.rows) >= 1

=============================================================================
